---- MODULE Spec2Model ----
(***************************************************************************)
(* A model of OuraDataHandler (src/src/oura_data_handler.py): the date     *)
(* resolver, the API and CSV loaders, the normalisers, the renderer with   *)
(* its trend and anomaly overlays, and the facade entry points.            *)
(*                                                                         *)
(* The handler holds an immutable configuration.  A behaviour is one call  *)
(* of one method on a constructed handler: the call's inputs, the reply of *)
(* the server and the content of the file it reads are chosen by the       *)
(* environment, and the state after the call records everything the call   *)
(* did: its return value, the fault it raised, what it printed, the        *)
(* requests it sent, the files it read and wrote, and what it rendered.    *)
(***************************************************************************)
EXTENDS Integers, Sequences, FiniteSets, TLC

VARIABLES
    access_token,      \* self.access_token
    pads_year,         \* whether the platform's strftime pads '%Y' to four digits
    local_data_paths,  \* self.local_data_paths: data type -> file path
    pc,                \* "idle" before the call, "done" after it
    call,              \* the method called and its arguments
    ret,               \* the value returned (None when a fault was raised)
    fault,             \* the exception that left the call, or NoFault
    out,               \* the lines printed to standard output, in order
    net,               \* the network requests sent, in order
    reads,             \* the files read, in order
    writes,            \* the files written, in order
    plots              \* the figures rendered, in order

vars == <<access_token, pads_year, local_data_paths, pc, call, ret, fault, out, net,
          reads, writes, plots>>

\* None where a str is expected (a period, a path, a token), and where a date
\* string is expected
None == "None"
NoneDate == <<"None">>
NoFault == "none"

\* Python values that a call returns, tagged with their type
PyNone == [type |-> "NoneType"]
DataFrame(rows) == [type |-> "DataFrame", rows |-> rows]
Str(chars) == [type |-> "str", chars |-> chars]
Dict(items) == [type |-> "dict", items |-> items]

\* F(v), with v evaluated once
With(v, F(_)) == CHOOSE r \in {F(x) : x \in {v}} : TRUE

Min(a, b) == IF a <= b THEN a ELSE b
Max(a, b) == IF a >= b THEN a ELSE b

(***************************************************************************)
(* Strings that the code parses, formats or compares are sequences of      *)
(* one-character strings.  Python compares str values by code point.       *)
(***************************************************************************)
Digits == <<"0", "1", "2", "3", "4", "5", "6", "7", "8", "9">>

IsDigit(c) == \E n \in 1..10 : Digits[n] = c

DigitVal(c) == (CHOOSE n \in 1..10 : Digits[n] = c) - 1

Ord(c) ==
    CASE c = " " -> 32
      [] c = "-" -> 45
      [] c = "/" -> 47
      [] IsDigit(c) -> 48 + DigitVal(c)
      [] OTHER -> 120

\* a < b for two str values
StrLt(a, b) ==
    \E i \in 1..(Min(Len(a), Len(b)) + 1) :
        /\ \A j \in 1..(i - 1) : a[j] = b[j]
        /\ \/ i > Len(a) /\ i <= Len(b)
           \/ i <= Len(a) /\ i <= Len(b) /\ Ord(a[i]) < Ord(b[i])

StrLe(a, b) == a = b \/ StrLt(a, b)

AllDigits(s) == \A i \in 1..Len(s) : IsDigit(s[i])

RECURSIVE NumVal(_)
NumVal(s) ==
    IF s = <<>> THEN 0
    ELSE 10 * NumVal(SubSeq(s, 1, Len(s) - 1)) + DigitVal(s[Len(s)])

\* str(n) of a natural number
RECURSIVE Decimal(_)
Decimal(n) ==
    IF n < 10 THEN <<Digits[n + 1]>>
    ELSE Append(Decimal(n \div 10), Digits[(n % 10) + 1])

\* n as exactly w decimal digits, zero padded
RECURSIVE Pad(_, _)
Pad(n, w) ==
    IF w = 0 THEN <<>> ELSE Append(Pad(n \div 10, w - 1), Digits[(n % 10) + 1])

(***************************************************************************)
(* datetime.date: the proleptic Gregorian calendar.                        *)
(***************************************************************************)
IsLeap(y) == y % 4 = 0 /\ (y % 100 # 0 \/ y % 400 = 0)

DaysInMonth(y, m) ==
    IF m = 2 THEN (IF IsLeap(y) THEN 29 ELSE 28)
    ELSE IF m \in {4, 6, 9, 11} THEN 30 ELSE 31

DaysBeforeYear(y) ==
    (y - 1) * 365 + ((y - 1) \div 4) - ((y - 1) \div 100) + ((y - 1) \div 400)

RECURSIVE DaysBeforeMonth(_, _)
DaysBeforeMonth(y, m) ==
    IF m = 1 THEN 0 ELSE DaysBeforeMonth(y, m - 1) + DaysInMonth(y, m - 1)

\* date(y, m, d).toordinal()
ToOrdinal(d) == DaysBeforeYear(d.year) + DaysBeforeMonth(d.year, d.month) + d.day

\* date.fromordinal(n)
YearOf(n) ==
    CHOOSE y \in (((n - 1) \div 366) + 1)..(((n - 1) \div 365) + 1) :
        DaysBeforeYear(y) < n /\ n <= DaysBeforeYear(y + 1)

\* the month and the day of the r-th day of year y
MonthDay(y, r) ==
    With(CHOOSE m \in 1..12 :
             DaysBeforeMonth(y, m) < r /\ r <= DaysBeforeMonth(y, m) + DaysInMonth(y, m),
         LAMBDA m : [year |-> y, month |-> m, day |-> r - DaysBeforeMonth(y, m)])

FromOrdinal(n) ==
    With(n, LAMBDA o : With(YearOf(o), LAMBDA y : MonthDay(y, o - DaysBeforeYear(y))))

\* date.min and date.max
MinDate == [year |-> 1, month |-> 1, day |-> 1]
MaxDate == [year |-> 9999, month |-> 12, day |-> 31]

\* date + timedelta(days=k): an OverflowError outside date.min..date.max
InRange(d, k) == ToOrdinal(d) + k \in ToOrdinal(MinDate)..ToOrdinal(MaxDate)

AddDays(d, k) == FromOrdinal(ToOrdinal(d) + k)

(***************************************************************************)
(* datetime.strptime(s, '%Y-%m-%d').date(): three fields separated by '-', *)
(* a four-digit year, a month and a day of one or two digits; a value that *)
(* is no date of the calendar is a ValueError.                             *)
(***************************************************************************)
Dashes(s) == {i \in 1..Len(s) : s[i] = "-"}

\* the fields of s between its dashes, when there are two
Fields(s) ==
    With(Dashes(s), LAMBDA ds :
        IF Cardinality(ds) # 2 THEN <<>>
        ELSE With(CHOOSE k \in ds : \A l \in ds : k <= l, LAMBDA i :
             With(CHOOSE k \in ds : \A l \in ds : k >= l, LAMBDA j :
                 <<SubSeq(s, 1, i - 1), SubSeq(s, i + 1, j - 1),
                   SubSeq(s, j + 1, Len(s))>>)))

\* date(y, m, d) of three digit strings
DateOf(Y, M, D) ==
    With(<<NumVal(Y), NumVal(M), NumVal(D)>>, LAMBDA v :
        IF /\ v[1] >= 1 /\ v[2] \in 1..12 /\ v[3] \in 1..DaysInMonth(v[1], v[2])
        THEN [ok |-> TRUE, date |-> [year |-> v[1], month |-> v[2], day |-> v[3]]]
        ELSE [ok |-> FALSE])

strptime(s) ==
    With(Fields(s), LAMBDA f :
        IF /\ f # <<>>
           /\ Len(f[1]) = 4 /\ AllDigits(f[1])
           /\ Len(f[2]) \in 1..2 /\ AllDigits(f[2])
           /\ Len(f[3]) \in 1..2 /\ AllDigits(f[3])
        THEN DateOf(f[1], f[2], f[3])
        ELSE [ok |-> FALSE])

\* d.isoformat()
isoformat(d) ==
    With(d, LAMBDA v :
        Pad(v.year, 4) \o <<"-">> \o Pad(v.month, 2) \o <<"-">> \o Pad(v.day, 2))

\* d.strftime('%Y-%m-%d'): the C library formats '%Y', and whether a year
\* below 1000 comes out zero padded depends on the platform
strftime(d) ==
    With(d, LAMBDA v :
        (IF pads_year THEN Pad(v.year, 4) ELSE Decimal(v.year))
            \o <<"-">> \o Pad(v.month, 2) \o <<"-">> \o Pad(v.day, 2))

(***************************************************************************)
(* The outcome of a call or of a step of it.                               *)
(***************************************************************************)
Outcome(r, f, o, n, rd, wr, pl) ==
    [ret |-> r, fault |-> f, out |-> o, net |-> n, reads |-> rd,
     writes |-> wr, plots |-> pl]

Returns(r) == Outcome(r, NoFault, <<>>, <<>>, <<>>, <<>>, <<>>)

Raises(f) == Outcome(PyNone, f, <<>>, <<>>, <<>>, <<>>, <<>>)

\* print(msg), print(f"msg {arg}")
Prints(msg) == Outcome(PyNone, NoFault, <<[msg |-> msg]>>, <<>>, <<>>, <<>>, <<>>)

PrintsWith(msg, arg) ==
    Outcome(PyNone, NoFault, <<[msg |-> msg, arg |-> arg]>>, <<>>, <<>>, <<>>, <<>>)

\* b's return value and fault, after the effects of a
After(a, b) ==
    Outcome(b.ret, b.fault, a.out \o b.out, a.net \o b.net,
            a.reads \o b.reads, a.writes \o b.writes, a.plots \o b.plots)

\* step a, then step b unless a raised
Then(a, b) ==
    With(a, LAMBDA x : IF x.fault # NoFault THEN x
                       ELSE With(b, LAMBDA y : After(x, y)))

(***************************************************************************)
(* OuraDataHandler._convert_date                                           *)
(***************************************************************************)
\* _convert_date with a month of 31 days
_convert_date_month31(input_date, period) ==
    With(strptime(input_date), LAMBDA parsed :
        IF ~parsed.ok THEN Raises("ValueError")
        ELSE LET parsed_date == parsed.date
                 days == IF period = "week" THEN -7
                         ELSE IF period = "month" THEN -31
                         ELSE IF period = "year" THEN -365
                         ELSE IF period = "day" THEN 1
                         ELSE 0
             IN IF ~InRange(parsed_date, days) THEN Raises("OverflowError")
                ELSE Returns(Str(strftime(AddDays(parsed_date, days)))))

\* _convert_date with the day subtracted instead of added
_convert_date_daybefore(input_date, period) ==
    With(strptime(input_date), LAMBDA parsed :
        IF ~parsed.ok THEN Raises("ValueError")
        ELSE LET parsed_date == parsed.date
                 days == IF period = "week" THEN -7
                         ELSE IF period = "month" THEN -30
                         ELSE IF period = "year" THEN -365
                         ELSE IF period = "day" THEN -1
                         ELSE 0
             IN IF ~InRange(parsed_date, days) THEN Raises("OverflowError")
                ELSE Returns(Str(strftime(AddDays(parsed_date, days)))))

_convert_date(input_date, period) ==
    With(strptime(input_date), LAMBDA parsed :
        IF ~parsed.ok THEN Raises("ValueError")
        ELSE LET parsed_date == parsed.date
                 days == IF period = "week" THEN -7
                         ELSE IF period = "month" THEN -30
                         ELSE IF period = "year" THEN -365
                         ELSE IF period = "day" THEN 1
                         ELSE 0
             IN IF ~InRange(parsed_date, days) THEN Raises("OverflowError")
                ELSE Returns(Str(strftime(AddDays(parsed_date, days)))))

(***************************************************************************)
(* Tables (pandas DataFrames) are sequences of rows, a row a record of its *)
(* columns.  pd.DataFrame() is the empty sequence.                         *)
(***************************************************************************)
EmptyTable == <<>>

Columns(df) == UNION {DOMAIN df[i] : i \in 1..Len(df)}

\* df.empty: no rows or no columns
IsEmpty(df) == Len(df) = 0 \/ Columns(df) = {}

\* dict.get(key)
DictGet(d, key) == IF key \in DOMAIN d THEN d[key] ELSE None

\* 'x is None' written where 'not x' is meant
Falsy_is_none(x) == x = None

\* not x, for a str or None
Falsy(x) == x = None \/ x = ""

\* the members of keep among 1..n, in increasing order
Positions(n, keep) ==
    With(keep, LAMBDA ks :
        [k \in 1..Cardinality(ks \cap (1..n)) |->
            CHOOSE i \in ks \cap (1..n) :
                Cardinality({j \in ks \cap (1..n) : j <= i}) = k])

\* df.loc[mask]: the rows whose position is in keep, in the table's order
Loc(df, keep) ==
    With(Positions(Len(df), keep), LAMBDA idx : [k \in 1..Len(idx) |-> df[idx[k]]])

(***************************************************************************)
(* OuraDataHandler.fetch_data_from_api.  reply is what the server answers: *)
(* the 'data' list of the response, or Timeout when requests.get raises.   *)
(***************************************************************************)
Timeout == [error |-> "Timeout"]
Data(list) == [data |-> list]

\* an allow-list that also lets the data type 'steps' through
valid_data_types_with_steps ==
    {"sleep", "daily_sleep", "daily_activity", "daily_readiness", "daily_spo2",
     "heartrate", "daily_stress", "steps"}

valid_data_types ==
    {"sleep", "daily_sleep", "daily_activity", "daily_readiness", "daily_spo2",
     "heartrate", "daily_stress"}

\* requests.get(url, headers=headers, params=params, timeout=10)
Request(data_type, params) ==
    Outcome(PyNone, NoFault, <<>>, <<[data_type |-> data_type, params |-> params]>>,
            <<>>, <<>>, <<>>)

\* lines 75-84: the query parameters, or the fault of the date resolver
BuildParams(data_type, start_date, end_date, duration) ==
    IF end_date = NoneDate THEN
        With(_convert_date(start_date, duration), LAMBDA new_start_day :
            IF new_start_day.fault # NoFault THEN new_start_day
            ELSE IF data_type # "heartrate"
            THEN Returns(Dict([start_date |-> new_start_day.ret.chars,
                               end_date |-> start_date]))
            ELSE With(_convert_date(start_date, "day"), LAMBDA new_end_day :
                     IF new_end_day.fault # NoFault THEN new_end_day
                     ELSE Returns(Dict([start_datetime |-> new_start_day.ret.chars,
                                        end_datetime |-> new_end_day.ret.chars]))))
    ELSE Returns(Dict([start_date |-> start_date, end_date |-> end_date]))

\* df.to_csv(filename, index=False)
ToCsv(df, filename) ==
    Outcome(PyNone, NoFault, <<>>, <<>>, <<>>,
            <<[path |-> filename, content |-> df]>>, <<>>)

\* lines 92-104: the reply turned into a table, saved on request
Deliver(response_json, save_file, filename) ==
    IF response_json = <<>>
    THEN Then(Prints("No data received."), Returns(DataFrame(EmptyTable)))
    ELSE LET df == response_json
             reported == Then(PrintsWith("Data successfully saved to", filename),
                              Returns(DataFrame(df)))
         IN Then(Prints("done!"),
                 IF save_file
                 THEN IF IsEmpty(df)
                      THEN Then(Prints("No data available to save."), Returns(PyNone))
                      ELSE Then(ToCsv(df, filename), reported)
                 ELSE reported)

fetch_data_from_api(token, data_type, start_date, end_date, duration, save_file, filename, reply) ==
    IF Falsy(token)
    THEN Then(Prints("Invalid token!"), Returns(DataFrame(EmptyTable)))
    ELSE IF data_type \notin valid_data_types
    THEN Then(Prints("Invalid data type!"), Returns(DataFrame(EmptyTable)))
    ELSE Then(PrintsWith("Requesting", data_type),
              With(BuildParams(data_type, start_date, end_date, duration),
                   LAMBDA params :
                       IF params.fault # NoFault THEN params
                       ELSE Then(Request(data_type, params.ret.items),
                                 IF reply = Timeout THEN Raises("RequestException")
                                 ELSE Deliver(reply.data, save_file, filename))))

(***************************************************************************)
(* OuraDataHandler.load_data_from_csv.  content is what pd.read_csv finds  *)
(* at the path: a table, or NoFile.                                        *)
(***************************************************************************)
NoFile == [error |-> "FileNotFoundError"]
File(rows) == [rows |-> rows]

\* pd.read_csv(file_path)
ReadCsv(file_path, content) ==
    IF content = NoFile
    THEN Outcome(PyNone, "FileNotFoundError", <<>>, <<>>, <<file_path>>, <<>>, <<>>)
    ELSE Outcome(DataFrame(content.rows), NoFault, <<>>, <<>>, <<file_path>>, <<>>, <<>>)

\* the filter with '>' for '>=': the lower bound left out
FilterDays_open(df, lo, hi) ==
    IF Len(df) > 0 /\ "day" \notin Columns(df) THEN Raises("KeyError")
    ELSE IF \E i \in 1..Len(df) : "day" \notin DOMAIN df[i] THEN Raises("TypeError")
    ELSE Returns(DataFrame(Loc(df, {i \in 1..Len(df) :
                                        StrLt(lo, df[i].day) /\ StrLe(df[i].day, hi)})))

\* df.loc[(df['day'] >= lo) & (df['day'] <= hi)]
FilterDays(df, lo, hi) ==
    IF Len(df) > 0 /\ "day" \notin Columns(df) THEN Raises("KeyError")
    ELSE IF \E i \in 1..Len(df) : "day" \notin DOMAIN df[i] THEN Raises("TypeError")
    ELSE Returns(DataFrame(Loc(df, {i \in 1..Len(df) :
                                        StrLe(lo, df[i].day) /\ StrLe(df[i].day, hi)})))

load_data_from_csv(paths, data_type, start_date, end_date, duration, content) ==
    LET file_path == DictGet(paths, data_type) IN
    IF Falsy(file_path)
    THEN Then(Prints("Invalid data type for CSV!"), Returns(DataFrame(EmptyTable)))
    ELSE With(ReadCsv(file_path, content), LAMBDA df :
             IF df.fault # NoFault THEN df
             ELSE IF end_date = NoneDate
             THEN With(_convert_date(start_date, duration), LAMBDA target_date :
                      IF target_date.fault # NoFault THEN After(df, target_date)
                      ELSE After(df, FilterDays(df.ret.rows, target_date.ret.chars,
                                                start_date)))
             ELSE After(df, FilterDays(df.ret.rows, start_date, end_date)))

(***************************************************************************)
(* Series.  A row that lacks a column has NaN there (a missing cell, a     *)
(* null object).                                                           *)
(***************************************************************************)
Has(row, column) == column \in DOMAIN row

\* the positions of df[column].dropna()
NotNa(df, column) == {i \in 1..Len(df) : Has(df[i], column)}

\* df[column].dropna().values
Values(df, column) ==
    With(Positions(Len(df), NotNa(df, column)), LAMBDA idx :
        [k \in 1..Len(idx) |-> df[idx[k]][column]])

\* the sum of the numbers of a sequence
RECURSIVE Sum(_, _)
Sum(q, n) == IF n = 0 THEN 0 ELSE q[n] + Sum(q, n - 1)

\* the sum of the column over the rows
SumOver(df, column, rows) ==
    With(Positions(Len(df), rows), LAMBDA idx :
        With([k \in 1..Len(idx) |-> df[idx[k]][column]], LAMBDA q : Sum(q, Len(q))))

(***************************************************************************)
(* Trend detection, lines 179-184: rpt.Pelt(model).fit(signal) and         *)
(* predict(pen=log(len(signal))).  Pelt places breakpoints on multiples of *)
(* jump that leave min_size samples on each side, ends its answer with     *)
(* len(signal), and cannot segment a signal shorter than min_size.  A cut  *)
(* costs pen more than it saves on a constant signal, so none is returned  *)
(* there; elsewhere the cuts are the library's choice.                     *)
(***************************************************************************)
PeltMinSize == 2
PeltJump == 5

Admissible(n) == {k \in 1..(n - 1) : k % PeltJump = 0 /\ k >= PeltMinSize}

IsConstant(signal) == \A i, j \in 1..Len(signal) : signal[i] = signal[j]

\* change_points[:-1] as a set; the library's choice is the oracle cuts
ChangePoints(signal, cuts) ==
    IF IsConstant(signal) THEN {} ELSE cuts \cap Admissible(Len(signal))

\* lines 178-184 of plot_data: the change dates, in order
DetectTrends(df, column, cuts) ==
    With(Values(df, column), LAMBDA signal :
        IF Len(signal) < PeltMinSize THEN Raises("BadSegmentationParameters")
        ELSE With(ChangePoints(signal, cuts), LAMBDA change_points :
                 IF change_points # {} /\ "day" \notin Columns(df)
                 THEN Raises("KeyError")
                 ELSE With(Positions(Len(df), {cp + 1 : cp \in change_points}),
                           LAMBDA idx :
                               Returns([type |-> "list",
                                        items |-> [k \in 1..Len(idx) |->
                                                      df[idx[k]].day]]))))

(***************************************************************************)
(* Anomaly detection, lines 187-191: rolling(window=7, min_periods=1) mean *)
(* and sample standard deviation, z = (x - mean) / std, |z| > threshold.   *)
(* With k observations of sum S in the window, z^2 is                      *)
(* (k x - S)^2 (k - 1) / SS, where SS is the sum of the (k x_j - S)^2.     *)
(* A threshold is a fraction num / den, den > 0.                           *)
(***************************************************************************)
RollingWindow == 7
MinPeriods == 1

\* the observations in the window that ends at row i
Window(df, column, i) ==
    {j \in Max(1, i - RollingWindow + 1)..i : Has(df[j], column)}

\* the sum over the rows of (k x - S)^2
SumSqDev(df, column, rows, k, S) ==
    With(Positions(Len(df), rows), LAMBDA idx :
        With([n \in 1..Len(idx) |->
                 (k * df[idx[n]][column] - S) * (k * df[idx[n]][column] - S)],
             LAMBDA q : Sum(q, Len(q))))

\* the z-score over the population deviation (ddof = 0) instead of the
\* sample deviation of Series.rolling(...).std()
ZOf_population(present, x, k, S, SS) ==
    IF ~present \/ k < MinPeriods \/ k < 2 \/ SS = 0 THEN [nan |-> TRUE]
    ELSE With(k * x - S, LAMBDA dev :
             [nan |-> FALSE,
              sign |-> IF dev > 0 THEN 1 ELSE IF dev < 0 THEN -1 ELSE 0,
              sq_num |-> dev * dev * k,
              sq_den |-> SS])

\* the z-score of x in a window of k observations of sum S and squared
\* deviations SS: NaN, or its sign and its square as a fraction
ZOf(present, x, k, S, SS) ==
    IF ~present \/ k < MinPeriods \/ k < 2 \/ SS = 0 THEN [nan |-> TRUE]
    ELSE With(k * x - S, LAMBDA dev :
             [nan |-> FALSE,
              sign |-> IF dev > 0 THEN 1 ELSE IF dev < 0 THEN -1 ELSE 0,
              sq_num |-> dev * dev * (k - 1),
              sq_den |-> SS])

\* the z-score of row i
ZScore(df, column, i) ==
    With(Window(df, column, i), LAMBDA w :
        With(<<Cardinality(w), SumOver(df, column, w)>>, LAMBDA kS :
            ZOf(Has(df[i], column), IF Has(df[i], column) THEN df[i][column] ELSE 0,
                kS[1], kS[2], SumSqDev(df, column, w, kS[1], kS[2]))))

\* abs(z) > threshold
\* 'not (abs(z) <= threshold)' for 'abs(z) > threshold': true of NaN
Exceeds_not_le(z, threshold) ==
    \/ z.nan
    \/ threshold.num < 0
    \/ z.sq_num * threshold.den * threshold.den
           > threshold.num * threshold.num * z.sq_den

Exceeds(z, threshold) ==
    /\ ~z.nan
    /\ \/ threshold.num < 0
       \/ z.sq_num * threshold.den * threshold.den
              > threshold.num * threshold.num * z.sq_den

\* df.loc[abs(z_scores) > anomaly_threshold]
DetectAnomalies(df, column, anomaly_threshold) ==
    Loc(df, {i \in 1..Len(df) : Exceeds(ZScore(df, column, i), anomaly_threshold)})

(***************************************************************************)
(* OuraDataHandler.plot_data.  A figure is recorded when plt.show() is     *)
(* reached.                                                                *)
(***************************************************************************)
Shows(figure) == Outcome(PyNone, NoFault, <<>>, <<>>, <<>>, <<>>, <<figure>>)

\* display(Markdown(f"**Figure:** {caption}"))
Displays(caption) ==
    IF caption # "" THEN PrintsWith("**Figure:**", caption) ELSE Returns(PyNone)

plot_data(df, column, caption, column2, detect_trends, detect_anomalies, anomaly_threshold, cuts) ==
    IF IsEmpty(df) THEN Prints("No data to plot.")
    ELSE IF column \notin Columns(df) \/ "day" \notin Columns(df)
    THEN Raises("KeyError")
    ELSE IF column2 # None /\ column2 \notin Columns(df) THEN Raises("KeyError")
    ELSE With(IF detect_trends THEN DetectTrends(df, column, cuts)
              ELSE Returns([type |-> "list", items |-> <<>>]),
              LAMBDA trends :
                  IF trends.fault # NoFault THEN trends
                  ELSE With(IF detect_anomalies
                            THEN DetectAnomalies(df, column, anomaly_threshold)
                            ELSE EmptyTable,
                            LAMBDA anomalies :
                                Then(Shows([kind |-> "plot_data", df |-> df,
                                            column |-> column,
                                            change_dates |-> trends.ret.items,
                                            anomalies |-> anomalies]),
                                     Displays(caption))))

(***************************************************************************)
(* The loaders as the facade calls them: by source tag.                    *)
(***************************************************************************)
\* record a without the column, and the two records joined
Drop(row, column) == [c \in DOMAIN row \ {column} |-> row[c]]

Join(a, b) ==
    [c \in DOMAIN a \cup DOMAIN b |-> IF c \in DOMAIN a THEN a[c] ELSE b[c]]

\* df.rename(columns={old: new})
Rename(row, old, new) ==
    IF Has(row, old)
    THEN [c \in (DOMAIN row \ {old}) \cup {new} |-> IF c = new THEN row[old] ELSE row[c]]
    ELSE row

(***************************************************************************)
(* OuraDataHandler.get_deep_sleep_duration                                 *)
(***************************************************************************)
\* lines 221-222: contributors flattened, deep_sleep renamed
\* the flattening without the rename of deep_sleep
FlattenContributors_unrenamed(df) ==
    IF "contributors" \notin Columns(df) THEN Raises("KeyError")
    ELSE IF \E i \in 1..Len(df) : ~Has(df[i], "contributors")
    THEN Raises("AttributeError")
    ELSE Returns(DataFrame(
             [i \in 1..Len(df) |->
                 Join(Drop(df[i], "contributors"), df[i].contributors)]))

FlattenContributors(df) ==
    IF "contributors" \notin Columns(df) THEN Raises("KeyError")
    ELSE IF \E i \in 1..Len(df) : ~Has(df[i], "contributors")
    THEN Raises("AttributeError")
    ELSE Returns(DataFrame(
             [i \in 1..Len(df) |->
                 Rename(Join(Drop(df[i], "contributors"), df[i].contributors),
                        "deep_sleep", "contributors_deep_sleep")]))

get_deep_sleep_duration(token, paths, source, start_date, end_date, duration, caption, reply, content) ==
    IF source \notin {"csv", "api"} THEN Prints("Invalid data source!")
    ELSE With(IF source = "csv"
              THEN load_data_from_csv(paths, "daily_sleep", start_date, end_date,
                                      duration, content)
              ELSE With(fetch_data_from_api(token, "daily_sleep", start_date,
                                            end_date, duration, FALSE, None, reply),
                        LAMBDA df :
                            IF df.fault = NoFault /\ ~IsEmpty(df.ret.rows)
                            THEN After(df, FlattenContributors(df.ret.rows))
                            ELSE df),
              LAMBDA df :
                  IF df.fault # NoFault THEN df
                  ELSE IF ~IsEmpty(df.ret.rows)
                  THEN After(df, plot_data(df.ret.rows, "contributors_deep_sleep",
                                           caption, None, FALSE, FALSE,
                                           [num |-> 2, den |-> 1], {}))
                  ELSE After(df, Prints("No data available for plotting.")))

(***************************************************************************)
(* OuraDataHandler.get_and_plot_daily_data                                 *)
(***************************************************************************)
\* lines 269-270 and 297-298: df.dropna(subset=['spo2_percentage']), then
\* each remaining object replaced by its 'average'
\* (a record of the reply holds null under 'spo2_percentage' when the night
\* has no measurement: the row lacks the field here)
ExtractSpo2(df) ==
    With(Loc(df, NotNa(df, "spo2_percentage")), LAMBDA kept :
        IF \E i \in 1..Len(kept) : ~Has(kept[i].spo2_percentage, "average")
        THEN Raises("KeyError")
        ELSE Returns(DataFrame(
                 [i \in 1..Len(kept) |->
                     [c \in DOMAIN kept[i] |->
                         IF c = "spo2_percentage"
                         THEN kept[i].spo2_percentage.average
                         ELSE kept[i][c]]])))

\* the table as the plotting step receives it
Normalise(df, data_type, source) ==
    IF data_type = "daily_spo2" /\ source = "api" THEN ExtractSpo2(df)
    ELSE Returns(DataFrame(df))

PlotColumn(data_type) == IF data_type = "daily_spo2" THEN "spo2_percentage" ELSE "score"

\* line 302: pd.to_datetime(df['day']), each day as an ordinal
DayOrdinals(df) ==
    With(df, LAMBDA t : [i \in 1..Len(t) |-> ToOrdinal(strptime(t[i].day).date)])

\* line 303: df.set_index('day').sort_index(): the positions of the rows in
\* the order of their days
SortByDay(df) ==
    With(DayOrdinals(df), LAMBDA ord :
        [k \in 1..Len(ord) |->
            CHOOSE i \in 1..Len(ord) :
                Cardinality({j \in 1..Len(ord) :
                                \/ ord[j] < ord[i]
                                \/ ord[j] = ord[i] /\ j <= i}) = k])

\* line 304: df[column].resample(f'{N}D').mean(): per bucket of N days from
\* the first day, the sum and the number of its observations
Resample(sorted, column, N) ==
    With(DayOrdinals(sorted), LAMBDA ord :
        [b \in 1..(((ord[Len(ord)] - ord[1]) \div N) + 1) |->
            With({i \in 1..Len(ord) :
                     /\ ord[i] \in (ord[1] + (b - 1) * N)..(ord[1] + b * N - 1)
                     /\ Has(sorted[i], column)},
                 LAMBDA rows :
                     [start |-> strftime(FromOrdinal(ord[1] + (b - 1) * N)),
                      end |-> strftime(FromOrdinal(ord[1] + b * N - 1)),
                      total |-> SumOver(sorted, column, rows),
                      count |-> Cardinality(rows)])])

\* lines 305-349: the figure of the aggregated view; df is the table indexed
\* by day, so 'day' is no longer one of its columns
DrawAggregated(sorted, df, column, caption, peacewisedDays, detect_trends, detect_anomalies, anomaly_threshold, cuts) ==
    With(Resample(sorted, column, peacewisedDays), LAMBDA df_resampled :
        With(IF detect_trends THEN DetectTrends(df, column, cuts)
             ELSE Returns([type |-> "list", items |-> <<>>]),
             LAMBDA trends :
                 IF trends.fault # NoFault THEN trends
                 ELSE IF /\ detect_anomalies
                         /\ ~IsEmpty(DetectAnomalies(df, column, anomaly_threshold))
                         /\ "day" \notin Columns(df)
                 THEN Raises("KeyError")
                 ELSE Then(Shows([kind |-> "aggregated", df |-> df,
                                  column |-> column, buckets |-> df_resampled]),
                           IF caption # "" THEN Displays(caption)
                           ELSE Prints("out of range of peacewised Days"))))

\* lines 295-349: the aggregated view
PlotAggregated(df0, data_type, source, caption, peacewisedDays, detect_trends, detect_anomalies, anomaly_threshold, cuts) ==
    With(Normalise(df0, data_type, source), LAMBDA norm :
        IF norm.fault # NoFault THEN norm
        ELSE IF Len(norm.ret.rows) = 0
        THEN IF peacewisedDays <= 0 THEN Raises("ValueError")
             ELSE Prints("No data to plot.")
        ELSE IF "day" \notin Columns(norm.ret.rows) THEN Raises("KeyError")
        ELSE IF \E i \in 1..Len(norm.ret.rows) :
                    \/ ~Has(norm.ret.rows[i], "day")
                    \/ ~strptime(norm.ret.rows[i].day).ok
        THEN Raises("ValueError")
        ELSE IF PlotColumn(data_type) \notin Columns(norm.ret.rows)
        THEN Raises("KeyError")
        ELSE IF peacewisedDays <= 0 THEN Raises("ValueError")
        ELSE With(SortByDay(norm.ret.rows), LAMBDA order :
                 With([k \in 1..Len(order) |-> norm.ret.rows[order[k]]],
                      LAMBDA sorted :
                          DrawAggregated(sorted,
                                         [k \in 1..Len(sorted) |->
                                             Drop(sorted[k], "day")],
                                         PlotColumn(data_type), caption,
                                         peacewisedDays, detect_trends,
                                         detect_anomalies, anomaly_threshold,
                                         cuts))))

get_and_plot_daily_data(token, paths, data_type, source, start_date, end_date, duration, caption, peacewisedDays, detect_trends, detect_anomalies, anomaly_threshold, reply, content, cuts) ==
    IF source \notin {"csv", "api"} THEN Prints("Invalid data source!")
    ELSE With(IF source = "csv"
              THEN load_data_from_csv(paths, data_type, start_date, end_date,
                                      duration, content)
              ELSE fetch_data_from_api(token, data_type, start_date, end_date,
                                       duration, FALSE, None, reply),
              LAMBDA df :
                  IF df.fault # NoFault THEN df
                  ELSE IF IsEmpty(df.ret.rows)
                  THEN After(df, Prints("No data available to plot."))
                  ELSE IF peacewisedDays = 1
                  THEN With(Normalise(df.ret.rows, data_type, source), LAMBDA norm :
                           IF norm.fault # NoFault THEN After(df, norm)
                           ELSE After(df, plot_data(norm.ret.rows,
                                                    PlotColumn(data_type), caption,
                                                    None, detect_trends,
                                                    detect_anomalies,
                                                    anomaly_threshold, cuts)))
                  ELSE After(df, PlotAggregated(df.ret.rows, data_type, source,
                                                caption, peacewisedDays,
                                                detect_trends, detect_anomalies,
                                                anomaly_threshold, cuts)))

(***************************************************************************)
(* OuraDataHandler.save_to_csv                                             *)
(***************************************************************************)
save_to_csv(df, filename) ==
    IF IsEmpty(df) THEN Prints("No data available to save.")
    ELSE Then(ToCsv(df, filename),
              PrintsWith("Data successfully saved to", filename))

(***************************************************************************)
(* OuraDataHandler.plot_sleep_phases                                       *)
(***************************************************************************)
\* 'sleep' rows from either source
LoadSleep(token, paths, source, start_date, end_date, duration, reply, content) ==
    IF source = "csv"
    THEN load_data_from_csv(paths, "sleep", start_date, end_date, duration, content)
    ELSE fetch_data_from_api(token, "sleep", start_date, end_date, duration,
                             FALSE, None, reply)

\* lines 373-394
DrawSleepPhases(df, date, caption) ==
    IF "day" \notin Columns(df) THEN Raises("KeyError")
    ELSE With(Loc(df, {i \in 1..Len(df) : Has(df[i], "day") /\ df[i].day = date}),
              LAMBDA rows :
                  IF "sleep_phase_5_min" \notin Columns(df) THEN Raises("KeyError")
                  ELSE IF rows = <<>> THEN Raises("IndexError")
                  ELSE IF ~Has(rows[1], "sleep_phase_5_min") THEN Raises("TypeError")
                  ELSE IF ~AllDigits(rows[1].sleep_phase_5_min)
                  THEN Raises("ValueError")
                  ELSE IF "bedtime_start" \notin Columns(df) THEN Raises("KeyError")
                  ELSE IF ~Has(df[1], "bedtime_start") THEN Raises("TypeError")
                  ELSE Then(Shows([kind |-> "sleep_phases", date |-> date,
                                   phase_values |-> rows[1].sleep_phase_5_min,
                                   start_time |-> df[1].bedtime_start]),
                            Displays(caption)))

plot_sleep_phases(token, paths, source, date, caption, reply, content) ==
    With(_convert_date(date, "day"), LAMBDA end_date :
        IF end_date.fault # NoFault THEN end_date
        ELSE IF source \notin {"csv", "api"} THEN Prints("Invalid data source!")
        ELSE With(LoadSleep(token, paths, source, date, end_date.ret.chars, None,
                            reply, content),
                  LAMBDA df :
                      IF df.fault # NoFault THEN df
                      ELSE IF IsEmpty(df.ret.rows)
                      THEN After(df, Prints("No data available for plotting."))
                      ELSE After(df, DrawSleepPhases(df.ret.rows, date, caption))))

(***************************************************************************)
(* OuraDataHandler.plot_bedtime                                            *)
(***************************************************************************)
\* lines 422-447
DrawBedtime(df, data_type, caption) ==
    IF data_type \notin {"start", "end"} THEN Prints("Invalid data type!")
    ELSE IF "bedtime_" \o data_type \notin Columns(df) \/ "day" \notin Columns(df)
    THEN Raises("KeyError")
    ELSE Then(Shows([kind |-> "bedtime", label |-> data_type, df |-> df,
                     column |-> "bedtime_" \o data_type]),
              Displays(caption))

plot_bedtime(token, paths, data_type, source, start_date, end_date, duration, caption, reply, content) ==
    IF source \notin {"csv", "api"} THEN Prints("Invalid data source!")
    ELSE With(LoadSleep(token, paths, source, start_date, end_date, duration,
                        reply, content),
              LAMBDA df :
                  IF df.fault # NoFault THEN df
                  ELSE IF IsEmpty(df.ret.rows)
                  THEN After(df, Prints("No data available for plotting."))
                  ELSE After(df, DrawBedtime(df.ret.rows, data_type, caption)))

(***************************************************************************)
(* OuraDataHandler.plot_heart_rate                                         *)
(***************************************************************************)
\* lines 466-483
DrawHeartRate(df0, source, caption) ==
    IF source \in {"rest", "awake"} /\ "source" \notin Columns(df0)
    THEN Raises("KeyError")
    ELSE IF "timestamp" \notin Columns(df0) \/ "bpm" \notin Columns(df0)
    THEN Raises("KeyError")
    ELSE Then(Shows([kind |-> "heart_rate",
                     df |-> IF source \in {"rest", "awake"}
                            THEN Loc(df0, {i \in 1..Len(df0) :
                                              /\ Has(df0[i], "source")
                                              /\ df0[i].source = source})
                            ELSE df0]),
              Displays(caption))

plot_heart_rate(token, date, source, caption, reply) ==
    With(fetch_data_from_api(token, "heartrate", date, NoneDate, None, FALSE,
                             None, reply),
         LAMBDA df :
             IF df.fault # NoFault THEN df
             ELSE IF IsEmpty(df.ret.rows)
             THEN After(df, Prints("No data available for plotting."))
             ELSE After(df, DrawHeartRate(df.ret.rows, source, caption)))

(***************************************************************************)
(* The inputs of the calls.                                                *)
(***************************************************************************)
NumDays == 500     \* _convert_date is tried on this many consecutive dates
MaxRows == 2       \* rows of a generated CSV file
MaxLen == 6        \* rows of a generated series handed to plot_data

FirstDay == [year |-> 2023, month |-> 1, day |-> 1]

CalendarDates ==
    {isoformat(AddDays(FirstDay, k)) : k \in 0..(NumDays - 1)}

d2023_10_01 == <<"2", "0", "2", "3", "-", "1", "0", "-", "0", "1">>
d2023_10_02 == <<"2", "0", "2", "3", "-", "1", "0", "-", "0", "2">>
d2023_11_01 == <<"2", "0", "2", "3", "-", "1", "1", "-", "0", "1">>
d2023_11_02 == <<"2", "0", "2", "3", "-", "1", "1", "-", "0", "2">>
d2023_11_08 == <<"2", "0", "2", "3", "-", "1", "1", "-", "0", "8">>
d2023_11_30 == <<"2", "0", "2", "3", "-", "1", "1", "-", "3", "0">>
d2023_12_01 == <<"2", "0", "2", "3", "-", "1", "2", "-", "0", "1">>
d2023_12_04 == <<"2", "0", "2", "3", "-", "1", "2", "-", "0", "4">>
d2023_12_08 == <<"2", "0", "2", "3", "-", "1", "2", "-", "0", "8">>
d2023_12_09 == <<"2", "0", "2", "3", "-", "1", "2", "-", "0", "9">>

\* strings that are no 'YYYY-MM-DD' date: a month 13, a 30th of February, a
\* date with slashes; and a date that strptime accepts without zero padding
\* dates at the ends of the calendar and around the year 1000
d0000_01_01 == <<"0", "0", "0", "0", "-", "0", "1", "-", "0", "1">>
d0001_01_01 == <<"0", "0", "0", "1", "-", "0", "1", "-", "0", "1">>
d0001_01_08 == <<"0", "0", "0", "1", "-", "0", "1", "-", "0", "8">>
d0999_12_31 == <<"0", "9", "9", "9", "-", "1", "2", "-", "3", "1">>
d1000_01_01 == <<"1", "0", "0", "0", "-", "0", "1", "-", "0", "1">>
d1001_01_01 == <<"1", "0", "0", "1", "-", "0", "1", "-", "0", "1">>
d9999_12_30 == <<"9", "9", "9", "9", "-", "1", "2", "-", "3", "0">>
d9999_12_31 == <<"9", "9", "9", "9", "-", "1", "2", "-", "3", "1">>

EdgeDates ==
    {d0000_01_01, d0001_01_01, d0001_01_08, d0999_12_31, d1000_01_01,
     d1001_01_01, d9999_12_30, d9999_12_31}

BadMonth == <<"2", "0", "2", "3", "-", "1", "3", "-", "0", "1">>
BadDay == <<"2", "0", "2", "3", "-", "0", "2", "-", "3", "0">>
Slashed == <<"1", "1", "/", "0", "1", "/", "2", "0", "2", "3">>
Unpadded == <<"2", "0", "2", "3", "-", "1", "1", "-", "1">>

Periods == {None, "day", "week", "month", "year", "decade"}

StartDates == {d2023_11_01, d2023_11_08, BadMonth}
EndDates == {NoneDate, d2023_11_02, d2023_11_08}

Sources == {"csv", "api", "ftp"}

Thresholds == {[num |-> 2, den |-> 1], [num |-> 1, den |-> 2], [num |-> -1, den |-> 1]}

ScoreValues == {1, 3}

RECURSIVE SeqsUpTo(_, _)
SeqsUpTo(S, n) ==
    IF n = 0 THEN {<<>>}
    ELSE LET shorter == SeqsUpTo(S, n - 1)
         IN shorter \cup {Append(q, x) : q \in {r \in shorter : Len(r) = n - 1}, x \in S}

\* a table of consecutive days from the first of November 2023 with the scores
Series(scores) ==
    [i \in 1..Len(scores) |->
        [day |-> isoformat(AddDays([year |-> 2023, month |-> 11, day |-> 1], i - 1)),
         score |-> scores[i]]]

\* what an Oura export of November 2023 holds: one row a day
November(score) == Series([i \in 1..30 |-> score])

\* generated CSV files: up to MaxRows rows in any order of days, the score of
\* a row its line number
FileDays == {d2023_10_01, d2023_10_02, d2023_11_01, d2023_11_02}

GeneratedSeries == {Series(scores) : scores \in SeqsUpTo(ScoreValues, MaxLen)}

GeneratedFiles ==
    {[i \in 1..Len(days) |-> [day |-> days[i], score |-> i]] :
        days \in SeqsUpTo(FileDays, MaxRows)}

FullPaths ==
    [daily_activity |-> "daily_activity.csv", daily_sleep |-> "daily_sleep.csv",
     daily_spo2 |-> "daily_spo2.csv", sleep |-> "sleep.csv"]

SparsePaths == [daily_activity |-> "", sleep |-> "sleep.csv"]

\* rows of the API and of the CSV export, per data type
\* eight days of activity scores with a step after the fifth: Pelt (jump 5,
\* penalty log 8) cuts there, and the sixth day lies more than two standard
\* deviations above the mean of its window
ActivityRows == Series(<<1, 1, 1, 1, 1, 9, 9, 9>>)

Spo2ApiRows ==
    <<[day |-> d2023_11_01, spo2_percentage |-> [average |-> 97]],
      [day |-> d2023_11_02],
      [day |-> d2023_11_08, spo2_percentage |-> [average |-> 95]]>>

\* a reply whose second object has no 'average'
Spo2NoAverageRows ==
    <<[day |-> d2023_11_01, spo2_percentage |-> [average |-> 97]],
      [day |-> d2023_11_02, spo2_percentage |-> [breathing_disturbance_index |-> 4]]>>

Spo2CsvRows ==
    <<[day |-> d2023_11_01, spo2_percentage |-> 97],
      [day |-> d2023_11_08, spo2_percentage |-> 95]>>

DailySleepApiRows ==
    <<[day |-> d2023_11_01, score |-> 80,
       contributors |-> [deep_sleep |-> 90, efficiency |-> 70]],
      [day |-> d2023_11_02, score |-> 60,
       contributors |-> [efficiency |-> 75]],
      [day |-> d2023_11_08, score |-> 70,
       contributors |-> [deep_sleep |-> 40, efficiency |-> 65]]>>

DailySleepCsvRows ==
    <<[day |-> d2023_11_08, score |-> 70, contributors_deep_sleep |-> 40],
      [day |-> d2023_11_01, score |-> 80, contributors_deep_sleep |-> 90]>>

SleepRows ==
    <<[day |-> d2023_11_01, sleep_phase_5_min |-> <<"4", "2", "2", "1", "3">>,
       bedtime_start |-> [hour |-> 23, minute |-> 15],
       bedtime_end |-> [hour |-> 7, minute |-> 5]],
      [day |-> d2023_11_02, sleep_phase_5_min |-> <<"2", "1", "1", "4">>,
       bedtime_start |-> [hour |-> 22, minute |-> 40],
       bedtime_end |-> [hour |-> 6, minute |-> 30]]>>

HeartRows ==
    <<[timestamp |-> [hour |-> 0, minute |-> 5], bpm |-> 52, source |-> "rest"],
      [timestamp |-> [hour |-> 9, minute |-> 30], bpm |-> 71, source |-> "awake"]>>

\* the 'data' lists the server may answer with, and a reply without any
Replies(data_type) ==
    {Timeout} \cup
    {Data(list) : list \in {<<>>, << <<>> >>} \cup
        (CASE data_type = "daily_spo2" ->
                  {Spo2ApiRows, SubSeq(Spo2ApiRows, 2, 2), Spo2NoAverageRows}
           [] data_type = "daily_sleep" ->
                  {DailySleepApiRows, SubSeq(DailySleepApiRows, 1, 1)}
           [] data_type = "sleep" -> {SleepRows, SubSeq(SleepRows, 2, 2)}
           [] data_type = "heartrate" -> {HeartRows}
           [] OTHER -> {ActivityRows, SubSeq(ActivityRows, 1, 1)})}

\* what the file of a data type may hold
Contents(data_type) ==
    {NoFile} \cup
    {File(rows) : rows \in
        (CASE data_type = "daily_spo2" -> {Spo2CsvRows}
           [] data_type = "daily_sleep" -> {DailySleepCsvRows, November(1)}
           [] data_type = "sleep" -> {SleepRows, SubSeq(SleepRows, 2, 2)}
           [] OTHER -> {November(1), ActivityRows})}

(***************************************************************************)
(* The state machine: a handler is constructed, then one method is called. *)
(***************************************************************************)
\* the handlers constructed: __init__ stores its arguments
Handlers ==
    {[access_token |-> "TOKEN", local_data_paths |-> FullPaths],
     [access_token |-> "", local_data_paths |-> FullPaths],
     [access_token |-> "TOKEN", local_data_paths |-> SparsePaths]}

\* a handler on a platform
Platforms ==
    {[handler |-> h, pads_year |-> TRUE] : h \in Handlers}
        \cup {[handler |-> CHOOSE h \in Handlers :
                              h.access_token # "" /\ h.local_data_paths = FullPaths,
                pads_year |-> FALSE]}

Init ==
    /\ \E p \in Platforms :
           /\ access_token = p.handler.access_token
           /\ local_data_paths = p.handler.local_data_paths
           /\ pads_year = p.pads_year
    /\ pc = "idle"
    /\ call = [op |-> "none"]
    /\ ret = PyNone
    /\ fault = NoFault
    /\ out = <<>>
    /\ net = <<>>
    /\ reads = <<>>
    /\ writes = <<>>
    /\ plots = <<>>

\* the call c ends with outcome r
Finish(c, r) ==
    \E x \in {r} :
        /\ pc' = "done"
        /\ call' = c
        /\ ret' = x.ret
        /\ fault' = x.fault
        /\ out' = x.out
        /\ net' = x.net
        /\ reads' = x.reads
        /\ writes' = x.writes
        /\ plots' = x.plots
        /\ UNCHANGED <<access_token, pads_year, local_data_paths>>

ConvertDate ==
    /\ pc = "idle"
    /\ \E input_date \in CalendarDates \cup EdgeDates
                            \cup {BadMonth, BadDay, Slashed, Unpadded},
       period \in Periods :
        Finish([op |-> "_convert_date", input_date |-> input_date, period |-> period],
               _convert_date(input_date, period))

FetchDataFromApi ==
    /\ pc = "idle"
    /\ \E data_type \in valid_data_types \cup {"steps"},
       start_date \in StartDates, end_date \in EndDates, duration \in Periods,
       save_file \in BOOLEAN, filename \in {"out.csv"} :
        \E reply \in Replies(data_type) :
            Finish([op |-> "fetch_data_from_api", data_type |-> data_type,
                    start_date |-> start_date, end_date |-> end_date,
                    duration |-> duration, save_file |-> save_file,
                    filename |-> filename, reply |-> reply],
                   fetch_data_from_api(access_token, data_type, start_date, end_date,
                                       duration, save_file, filename, reply))

SaveToCsv ==
    /\ pc = "idle"
    /\ \E df \in {<<>>, << <<>> >>, ActivityRows, SleepRows}, filename \in {"out.csv"} :
        Finish([op |-> "save_to_csv", df |-> df, filename |-> filename],
               save_to_csv(df, filename))

LoadDataFromCsv ==
    /\ pc = "idle"
    /\ \E data_type \in {"daily_activity", "steps"},
       start_date \in {d2023_11_01, d2023_10_02, BadMonth}, end_date \in EndDates,
       duration \in Periods,
       content \in {NoFile} \cup {File(rows) : rows \in GeneratedFiles} :
        Finish([op |-> "load_data_from_csv", data_type |-> data_type,
                start_date |-> start_date, end_date |-> end_date,
                duration |-> duration, content |-> content],
               load_data_from_csv(local_data_paths, data_type, start_date, end_date,
                                  duration, content))

PlotData ==
    /\ pc = "idle"
    /\ \E df \in GeneratedSeries,
       detect_trends \in BOOLEAN, detect_anomalies \in BOOLEAN,
       caption \in {"Scores"} :
        \E anomaly_threshold \in
               IF detect_anomalies THEN Thresholds ELSE {[num |-> 2, den |-> 1]},
           cuts \in IF detect_trends THEN SUBSET Admissible(MaxLen + 1) ELSE {{}} :
            Finish([op |-> "plot_data", df |-> df, column |-> "score",
                    caption |-> caption, detect_trends |-> detect_trends,
                    detect_anomalies |-> detect_anomalies,
                    anomaly_threshold |-> anomaly_threshold, cuts |-> cuts],
                   plot_data(df, "score", caption, None, detect_trends,
                             detect_anomalies, anomaly_threshold, cuts))

GetDeepSleepDuration ==
    /\ pc = "idle"
    /\ \E source \in Sources, start_date \in StartDates, end_date \in EndDates,
       duration \in {None, "week", "month"}, caption \in {""} :
        \E reply \in IF source = "api" THEN Replies("daily_sleep") ELSE {Timeout},
           content \in IF source = "csv" THEN Contents("daily_sleep") ELSE {NoFile} :
            Finish([op |-> "get_deep_sleep_duration", source |-> source,
                    start_date |-> start_date, end_date |-> end_date,
                    duration |-> duration, caption |-> caption,
                    reply |-> reply, content |-> content],
                   get_deep_sleep_duration(access_token, local_data_paths, source,
                                           start_date, end_date, duration, caption,
                                           reply, content))

GetAndPlotDailyData ==
    /\ pc = "idle"
    /\ \E data_type \in {"daily_activity", "daily_spo2", "steps"},
       source \in Sources, start_date \in StartDates,
       end_date \in {NoneDate, d2023_11_08},
       duration \in {None, "week", "month"}, caption \in {"", "Daily"},
       peacewisedDays \in {1, 3},
       detect_trends \in BOOLEAN, detect_anomalies \in BOOLEAN :
        \E anomaly_threshold \in
               {[num |-> 2, den |-> 1]},
           cuts \in IF detect_trends THEN {{}, {5}} ELSE {{}},
           reply \in IF source = "api" THEN Replies(data_type) ELSE {Timeout},
           content \in IF source = "csv" THEN Contents(data_type) ELSE {NoFile} :
            Finish([op |-> "get_and_plot_daily_data", data_type |-> data_type,
                    source |-> source, start_date |-> start_date,
                    end_date |-> end_date, duration |-> duration,
                    caption |-> caption, peacewisedDays |-> peacewisedDays,
                    detect_trends |-> detect_trends,
                    detect_anomalies |-> detect_anomalies,
                    anomaly_threshold |-> anomaly_threshold,
                    reply |-> reply, content |-> content, cuts |-> cuts],
                   get_and_plot_daily_data(access_token, local_data_paths, data_type,
                                           source, start_date, end_date, duration,
                                           caption, peacewisedDays, detect_trends,
                                           detect_anomalies, anomaly_threshold,
                                           reply, content, cuts))

PlotSleepPhases ==
    /\ pc = "idle"
    /\ \E source \in Sources, date \in StartDates \cup {d2023_11_02}, caption \in {""} :
        \E reply \in IF source = "api" THEN Replies("sleep") ELSE {Timeout},
           content \in IF source = "csv" THEN Contents("sleep") ELSE {NoFile} :
            Finish([op |-> "plot_sleep_phases", source |-> source, date |-> date,
                    caption |-> caption, reply |-> reply, content |-> content],
                   plot_sleep_phases(access_token, local_data_paths, source, date,
                                     caption, reply, content))

PlotBedtime ==
    /\ pc = "idle"
    /\ \E data_type \in {"start", "end", "nap"}, source \in Sources,
       start_date \in StartDates, end_date \in EndDates,
       duration \in {None, "week"}, caption \in {""} :
        \E reply \in IF source = "api" THEN Replies("sleep") ELSE {Timeout},
           content \in IF source = "csv" THEN Contents("sleep") ELSE {NoFile} :
            Finish([op |-> "plot_bedtime", data_type |-> data_type, source |-> source,
                    start_date |-> start_date, end_date |-> end_date,
                    duration |-> duration, caption |-> caption,
                    reply |-> reply, content |-> content],
                   plot_bedtime(access_token, local_data_paths, data_type, source,
                                start_date, end_date, duration, caption, reply,
                                content))

PlotHeartRate ==
    /\ pc = "idle"
    /\ \E date \in StartDates, source \in {"both", "rest", "awake"},
       caption \in {"Daily Heart Rate"} :
        \E reply \in Replies("heartrate") :
            Finish([op |-> "plot_heart_rate", date |-> date, source |-> source,
                    caption |-> caption, reply |-> reply],
                   plot_heart_rate(access_token, date, source, caption, reply))

Next ==
    \/ ConvertDate
    \/ FetchDataFromApi
    \/ SaveToCsv
    \/ LoadDataFromCsv
    \/ PlotData
    \/ GetDeepSleepDuration
    \/ GetAndPlotDailyData
    \/ PlotSleepPhases
    \/ PlotBedtime
    \/ PlotHeartRate

Spec == Init /\ [][Next]_vars

(***************************************************************************)
(* The properties of the specification document, each stated of the state  *)
(* after a call.                                                           *)
(***************************************************************************)
Done(op) == pc = "done" /\ call.op = op

\* a 'YYYY-MM-DD' string: ten characters, dashes fifth and eighth, digits
\* elsewhere
IsYmd(s) ==
    /\ Len(s) = 10
    /\ s[5] = "-" /\ s[8] = "-"
    /\ \A i \in (1..10) \ {5, 8} : IsDigit(s[i])

\* a valid ISO date: a 'YYYY-MM-DD' string that names a day of the calendar
IsIsoDate(s) == IsYmd(s) /\ strptime(s).ok

\* the day an ISO date names, as a day number
DayNumber(s) == ToOrdinal(strptime(s).date)

\* the offset table of the specification, in days
Offset(period) ==
    CASE period = "week" -> -7
      [] period = "month" -> -30
      [] period = "year" -> -365
      [] period = "day" -> 1
      [] OTHER -> 0

\* the day numbers of the dates from 1000-01-01 to 9999-12-31
FourDigitYears ==
    ToOrdinal([year |-> 1000, month |-> 1, day |-> 1])..ToOrdinal(MaxDate)

\* the call returned the ISO date that lies Offset(period) days from its
\* input date
ShiftedByTable ==
    /\ fault = NoFault
    /\ ret.type = "str"
    /\ IsIsoDate(ret.chars)
    /\ DayNumber(ret.chars) = DayNumber(call.input_date) + Offset(call.period)

RowsWithin(rows, lo, hi) ==
    Loc(rows, {i \in 1..Len(rows) : DayNumber(rows[i].day) \in lo..hi})

\* the path local_data_paths holds for the data type of the call, if any
Mapped ==
    /\ call.data_type \in DOMAIN local_data_paths
    /\ local_data_paths[call.data_type] # ""

C4_MonthBack ==
    (/\ Done("get_and_plot_daily_data")
     /\ call.data_type = "daily_activity" /\ Mapped
     /\ call.source = "csv"
     /\ call.start_date = d2023_11_01 /\ call.end_date = NoneDate
     /\ call.duration = "month"
     /\ call.peacewisedDays = 1
     /\ call.detect_trends /\ call.detect_anomalies
     /\ call.content = File(November(1)))
        => /\ fault = NoFault
           /\ Len(plots) = 1
           /\ plots[1].df = RowsWithin(November(1), DayNumber(d2023_10_02),
                                       DayNumber(d2023_11_01))

\* C5: fetch_data_from_api with a data_type outside the allow-list, or on a
\* handler with an empty token, returns an empty table with a diagnostic,
\* raises no fault and sends no request, whatever its other arguments are.
C5_NoRequest ==
    (/\ Done("fetch_data_from_api")
     /\ \/ access_token = ""
        \/ call.data_type \notin {"sleep", "daily_sleep", "daily_activity",
                                  "daily_readiness", "daily_spo2", "heartrate",
                                  "daily_stress"})
        => /\ fault = NoFault
           /\ ret = DataFrame(EmptyTable)
           /\ Len(out) = 1
           /\ net = <<>>

\* C5's case: the data type 'steps' asked for with a token and a start date
\* that is no date
C5_Witness ==
    /\ Done("fetch_data_from_api")
    /\ access_token # "" /\ call.data_type = "steps"
    /\ call.start_date = BadMonth /\ call.end_date = NoneDate
    /\ ret = DataFrame(EmptyTable)
    /\ out = <<[msg |-> "Invalid data type!"]>>
    /\ net = <<>>

\* C6: load_data_from_csv with a data_type that has no path, or an empty
\* path, in local_data_paths returns an empty table with a diagnostic, raises
\* no fault and reads no file, whatever start_date, end_date and duration are.
C6_NoRead ==
    (Done("load_data_from_csv") /\ ~Mapped)
        => /\ fault = NoFault
           /\ ret = DataFrame(EmptyTable)
           /\ Len(out) = 1
           /\ reads = <<>>

\* C6's case: a data type mapped to the empty path, with a start date that
\* is no date and no end date
C6_Witness ==
    /\ Done("load_data_from_csv")
    /\ call.data_type \in DOMAIN local_data_paths
    /\ local_data_paths[call.data_type] = ""
    /\ call.start_date = BadMonth /\ call.end_date = NoneDate
    /\ ret = DataFrame(EmptyTable)
    /\ out = <<[msg |-> "Invalid data type for CSV!"]>>
    /\ reads = <<>>

\* C7: in get_and_plot_daily_data, get_deep_sleep_duration,
\* plot_sleep_phases and plot_bedtime a source other than 'csv' or 'api'
\* ends in a printed diagnostic and never in a fault, whatever the other
\* arguments are, and nothing is read, requested or rendered.
C7_InvalidSource ==
    (/\ pc = "done"
     /\ call.op \in {"get_and_plot_daily_data", "get_deep_sleep_duration",
                     "plot_sleep_phases", "plot_bedtime"}
     /\ call.source \notin {"csv", "api"})
        => /\ fault = NoFault
           /\ out = <<[msg |-> "Invalid data source!"]>>
           /\ reads = <<>> /\ net = <<>> /\ plots = <<>>

\* the values of a column are all present and all equal
IsConstantColumn(df, column) ==
    \A i, j \in 1..Len(df) :
        /\ column \in DOMAIN df[i]
        /\ df[i][column] = df[j][column]

\* C8: for a series whose values are all equal, of any length, the z-scores
\* of the anomaly detector are all zero or undefined and no point is flagged,
\* for every threshold.
C8_ConstantSeries ==
    (/\ pc = "done"
     /\ call.op \in {"plot_data", "get_and_plot_daily_data"}
     /\ call.detect_anomalies
     /\ Len(plots) = 1
     /\ plots[1].kind = "plot_data"
     /\ IsConstantColumn(plots[1].df, plots[1].column))
        => /\ plots[1].anomalies = <<>>
           /\ \A i \in 1..Len(plots[1].df) :
                  \/ ZScore(plots[1].df, plots[1].column, i).nan
                  \/ ZScore(plots[1].df, plots[1].column, i).sign = 0
           /\ \A i \in 1..Len(plots[1].df), t \in Thresholds :
                  ~Exceeds(ZScore(plots[1].df, plots[1].column, i), t)

\* C8's case: eight days of the same score, so that the window of seven has
\* filled and moved, rendered with the detector on
C8_Witness ==
    /\ Done("get_and_plot_daily_data")
    /\ call.detect_anomalies
    /\ Len(plots) = 1
    /\ plots[1].kind = "plot_data"
    /\ Len(plots[1].df) = 8
    /\ IsConstantColumn(plots[1].df, "score")
    /\ plots[1].anomalies = <<>>

\* C9: with the API source, every row of a non-empty fetched table whose
\* contributors object has deep_sleep = X reaches the renderer of
\* get_deep_sleep_duration with contributors_deep_sleep = X on the same row,
\* without the contributors column and with the number and order of the rows
\* unchanged; with the CSV source the rows reach the renderer as loaded.
C9_DeepSleep ==
    /\ (/\ Done("get_deep_sleep_duration")
        /\ call.source = "api"
        /\ net # <<>>
        /\ call.reply # Timeout
        /\ ~IsEmpty(call.reply.data))
           => /\ fault = NoFault
              /\ Len(plots) = 1
              /\ Len(plots[1].df) = Len(call.reply.data)
              /\ \A i \in 1..Len(call.reply.data) :
                     /\ "contributors" \notin DOMAIN plots[1].df[i]
                     /\ plots[1].df[i].day = call.reply.data[i].day
                     /\ "deep_sleep" \in DOMAIN call.reply.data[i].contributors
                            => /\ "contributors_deep_sleep" \in DOMAIN plots[1].df[i]
                               /\ plots[1].df[i].contributors_deep_sleep
                                      = call.reply.data[i].contributors.deep_sleep
    /\ (/\ Done("get_deep_sleep_duration")
        /\ call.source = "csv"
        /\ Len(plots) = 1)
           => plots[1].df =
                  Loc(call.content.rows,
                      {i \in 1..Len(call.content.rows) :
                          \E k \in 1..Len(plots[1].df) :
                              plots[1].df[k] = call.content.rows[i]})

\* C9's case: three rows fetched, the first with deep_sleep 90, rendered
C9_Witness ==
    /\ Done("get_deep_sleep_duration")
    /\ call.source = "api"
    /\ call.reply = Data(DailySleepApiRows)
    /\ Len(plots) = 1
    /\ plots[1].df[1].contributors_deep_sleep = 90

\* C10: every request of fetch_data_from_api for 'heartrate' carries its
\* window under start_datetime and end_datetime, and every request for
\* another data type under start_date and end_date, with end_date supplied
\* or omitted.
C10_WindowKeys ==
    \A i \in 1..Len(net) :
        DOMAIN net[i].params =
            IF net[i].data_type = "heartrate"
            THEN {"start_datetime", "end_datetime"}
            ELSE {"start_date", "end_date"}

\* the call sent its request and the server answered with a table that is
\* not empty
Fetched ==
    /\ net # <<>>
    /\ call.reply # Timeout
    /\ ~IsEmpty(call.reply.data)

\* C11: fetch_data_from_api writes a file to the caller's path, and reports
\* a successful save, if and only if save_file is true and the fetched table
\* is not empty; with save_file false nothing is written and no save is
\* reported.
C11_SaveOnRequest ==
    Done("fetch_data_from_api") =>
        /\ writes # <<>> <=> (call.save_file /\ Fetched)
        /\ writes # <<>> => writes[1].path = call.filename
        /\ (\E i \in 1..Len(out) : out[i].msg = "Data successfully saved to")
               <=> (call.save_file /\ Fetched)

\* the rows of a reply that hold a spo2_percentage object with an average,
\* the object replaced by its average
WithAverage(rows) ==
    With(Loc(rows, {i \in 1..Len(rows) :
                       /\ "spo2_percentage" \in DOMAIN rows[i]
                       /\ "average" \in DOMAIN rows[i].spo2_percentage}),
         LAMBDA kept :
             [i \in 1..Len(kept) |->
                 [kept[i] EXCEPT !.spo2_percentage = kept[i].spo2_percentage.average]])

\* C12: for the API source and 'daily_spo2', get_and_plot_daily_data puts
\* the average of each row's spo2_percentage object in its place and drops
\* the rows without one (a null object, an object without an average),
\* raising no fault; for the CSV source the column is left as loaded.
C12_Spo2Average ==
    /\ (/\ Done("get_and_plot_daily_data")
        /\ call.data_type = "daily_spo2" /\ call.source = "api"
        /\ call.peacewisedDays = 1 /\ ~call.detect_trends
        /\ Fetched)
           => /\ fault = NoFault
              /\ IF WithAverage(call.reply.data) = <<>> THEN plots = <<>>
                 ELSE /\ Len(plots) = 1
                      /\ plots[1].df = WithAverage(call.reply.data)
    /\ (/\ Done("get_and_plot_daily_data")
        /\ call.data_type = "daily_spo2" /\ call.source = "csv"
        /\ Len(plots) = 1)
           => \A k \in 1..Len(plots[1].df) :
                  \E i \in 1..Len(call.content.rows) :
                      plots[1].df[k] = call.content.rows[i]

\* the table that get_and_plot_daily_data loaded is not empty
Loaded ==
    \/ /\ call.source = "api"
       /\ Fetched
    \/ /\ call.source = "csv"
       /\ Mapped
       /\ call.content # NoFile
       /\ IsIsoDate(call.start_date)
       /\ call.end_date # NoneDate => IsIsoDate(call.end_date)
       /\ <<>> # (IF call.end_date # NoneDate
                  THEN RowsWithin(call.content.rows, DayNumber(call.start_date),
                                  DayNumber(call.end_date))
                  ELSE RowsWithin(call.content.rows,
                                  DayNumber(call.start_date) + Offset(call.duration),
                                  DayNumber(call.start_date)))

\* C13: in the aggregated mode of get_and_plot_daily_data (peacewisedDays
\* other than 1), for every non-empty loaded table the call resamples to
\* N-day buckets and renders without fault with detect_trends or
\* detect_anomalies enabled, also when a changepoint or an anomaly is found.
C13_AggregatedRenders ==
    (/\ Done("get_and_plot_daily_data")
     /\ call.peacewisedDays # 1
     /\ call.detect_trends \/ call.detect_anomalies
     /\ Loaded)
        => /\ fault = NoFault
           /\ Len(plots) = 1
           /\ plots[1].kind = "aggregated"

\* the trailing window of row i (the row and up to six rows before it) as
\* the number k of its observations, their sum S and the sum Q of their
\* squares; k * Q - S * S is k (k - 1) times the sample variance
TrailingStats(df, column, i) ==
    With(Loc(df, {j \in 1..i : j > i - 7 /\ column \in DOMAIN df[j]}), LAMBDA w :
        With(<<[n \in 1..Len(w) |-> w[n][column]],
               [n \in 1..Len(w) |-> w[n][column] * w[n][column]]>>, LAMBDA q :
            [k |-> Len(w), S |-> Sum(q[1], Len(w)), Q |-> Sum(q[2], Len(w)),
             present |-> column \in DOMAIN df[i],
             x |-> IF column \in DOMAIN df[i] THEN df[i][column] ELSE 0]))

\* a row of trailing statistics s has a z-score: the row has a value and its
\* window holds at least two observations that are not all equal
Scored(s) == s.present /\ s.k >= 2 /\ s.k * s.Q - s.S * s.S > 0

\* abs(z) > t for a scored row, with z^2 = (k x - S)^2 (k - 1) / (k (k Q - S^2))
Flagged(s, t) ==
    /\ Scored(s)
    /\ \/ t.num < 0
       \/ (s.k * s.x - s.S) * (s.k * s.x - s.S) * (s.k - 1) * t.den * t.den
              > t.num * t.num * s.k * (s.k * s.Q - s.S * s.S)

\* a figure of plot_data drawn with the anomaly detector on
AnomaliesDrawn ==
    /\ pc = "done"
    /\ call.op \in {"plot_data", "get_and_plot_daily_data"}
    /\ call.detect_anomalies
    /\ Len(plots) = 1
    /\ plots[1].kind = "plot_data"

\* C14 as stated: the anomaly detector gives every point a z-score, the
\* first points with fewer than 7 samples of history included, and flags a
\* point if and only if the absolute value of that z-score exceeds the
\* threshold.
C14_EveryPointScored ==
    AnomaliesDrawn =>
        \A i \in 1..Len(plots[1].df) :
            plots[1].column \in DOMAIN plots[1].df[i] =>
                /\ ~ZScore(plots[1].df, plots[1].column, i).nan
                /\ (\E a \in 1..Len(plots[1].anomalies) :
                        plots[1].anomalies[a] = plots[1].df[i])
                       <=> Exceeds(ZScore(plots[1].df, plots[1].column, i),
                                   call.anomaly_threshold)

\* C14, amended: the detector scores a point from its partial trailing
\* window (the point and up to six points before it); the score exists if
\* and only if that window holds at least two samples that are not all
\* equal, so the first point has none; the flagged points are exactly the
\* scored points whose absolute z-score exceeds the threshold; and at the
\* default threshold 2.0 a point is flagged only from a window of at least
\* six samples, never from two.
C14_PartialWindow ==
    AnomaliesDrawn =>
        With([i \in 1..Len(plots[1].df) |->
                 [s |-> TrailingStats(plots[1].df, plots[1].column, i),
                  nan |-> ZScore(plots[1].df, plots[1].column, i).nan]],
             LAMBDA row :
                 /\ \A i \in DOMAIN row : row[i].nan <=> ~Scored(row[i].s)
                 /\ row[1].nan
                 /\ plots[1].anomalies
                        = Loc(plots[1].df,
                              {i \in DOMAIN row : Flagged(row[i].s, call.anomaly_threshold)})
                 /\ \A i \in DOMAIN row :
                        Flagged(row[i].s, [num |-> 2, den |-> 1])
                            => row[i].s.k >= 6 /\ i >= 6)

\* C14's case: six days, five equal scores and then a 3, rendered at the
\* threshold 2.0; the window of the sixth day is still partial and its
\* z-score of 2.04 flags it, and nothing before it is flagged
C14_Witness ==
    /\ Done("plot_data")
    /\ call.detect_anomalies
    /\ call.anomaly_threshold = [num |-> 2, den |-> 1]
    /\ Len(plots) = 1
    /\ Len(plots[1].df) = 6
    /\ Len(plots[1].df) < RollingWindow
    /\ plots[1].anomalies = <<plots[1].df[6]>>
    /\ plots[1].df[6].score = 3

\* a call that leaves end_date out and names a valid start_date and one of
\* the four periods, or none
OpenEnded ==
    /\ call.end_date = NoneDate
    /\ IsIsoDate(call.start_date)
    /\ call.duration \in {None, "day", "week", "month", "year"}

\* C15: when end_date is omitted, for every valid start_date and every
\* duration among day, week, month and year, or none, the window of
\* load_data_from_csv and of fetch_data_from_api (for a data type other than
\* heartrate) is well formed: its lower bound is not after its upper bound
\* and start_date lies inside it, so that a row whose day equals start_date
\* is always selected.
C15_WellFormedWindow ==
    /\ (/\ Done("load_data_from_csv")
        /\ Mapped
        /\ call.content # NoFile
        /\ OpenEnded
        /\ \A i \in 1..Len(call.content.rows) :
               /\ Has(call.content.rows[i], "day")
               /\ IsIsoDate(call.content.rows[i].day))
           => /\ fault = NoFault
              /\ \A i \in 1..Len(call.content.rows) :
                     call.content.rows[i].day = call.start_date
                         => \E j \in 1..Len(ret.rows) :
                                ret.rows[j] = call.content.rows[i]
    /\ (/\ Done("fetch_data_from_api")
        /\ call.data_type # "heartrate"
        /\ OpenEnded
        /\ net # <<>>)
           => /\ DayNumber(net[1].params.start_date) <= DayNumber(net[1].params.end_date)
              /\ DayNumber(net[1].params.start_date) <= DayNumber(call.start_date)
              /\ DayNumber(call.start_date) <= DayNumber(net[1].params.end_date)

====
